---- MODULE Spec2Model ----
(***************************************************************************)
(* PhotoMatch backend: the ingest pipeline (ingest_service.py), the face   *)
(* selection helpers (bbox.py), the reprocess and top-3 migration scripts, *)
(* delete_photo and update_photo_tag (admin_service.py), the face search   *)
(* (search_service.py), the stored paths (image_store.py) and the          *)
(* FaceDetector of the API process (face_detector.py, the routes), over    *)
(* the photos/faces tables.                                                *)
(*                                                                         *)
(* Every db.execute / db.execute_one call commits on its own (db.py        *)
(* get_cursor), so each one is one atomic step; whatever a handler         *)
(* computes locally between two database calls belongs to the step of the  *)
(* database call that follows it.                                          *)
(*                                                                         *)
(* Raw detector coordinates are floats; they are counted here in half      *)
(* pixels (the integer 3 is the float 1.5), stored coordinates in whole    *)
(* pixels.                                                                 *)
(***************************************************************************)
EXTENDS Integers, Sequences, FiniteSets, TLC

VARIABLES
    photos,     \* rows of table photos
    faces,      \* rows of table faces
    next_id,    \* uuid4 / gen_random_uuid: [photo |-> n, face |-> n], the next fresh ids
    detector,   \* the external decode + detector capability, per file content
    ingest,     \* per ingest_folder caller: position and locals
    reproc,     \* per reprocess_all_photos run: position and locals
    migr,       \* the update_database run: position and locals
    env,        \* budgets of environment events: [faults |-> n, deletes |-> n]
    calls,      \* history: the ingest_image calls that have returned, in order
    face_detector,  \* per ingest_folder caller: the FaceDetector singleton of its process
    db,         \* per ingest_folder caller: the Database connection of its process
    search,     \* the last search_by_image call: its arguments and what it returned
    deleted,    \* history: the delete_photo calls, in order
    selected,   \* a call of the bbox.py selection helpers: its arguments and results
    api         \* the API process: its requests, its event loop, its FaceDetector

vars == <<photos, faces, next_id, detector, ingest, reproc, migr, env, calls,
          face_detector, db, search, deleted, selected, api>>

---------------------------------------------------------------------------
(* Bounds *)

NumWorkers == 2      \* concurrent ingest_folder callers
NumPasses == 2       \* concurrent reprocess_all_photos runs
MaxFaces == 4        \* longest detector output drawn in InitSeq
MaxPhotoRows == 3    \* photo ids handed out
MaxFaceRows == 7     \* face ids handed out
MaxFaults == 1       \* storage errors (connection loss) injected
MaxDeletes == 1      \* delete_photo calls

Workers == 1..NumWorkers
Passes == 1..NumPasses

---------------------------------------------------------------------------
(* Files on disk.  Files 1 and 2 hold identical bytes, file 3 other bytes, *)
(* file 4 the bytes of file 3, file 5 bytes of its own.  Paths sort as the *)
(* numbers do.  An image uploaded to search is named by its bytes.         *)

Files == 1..5
Contents == 1..5     \* 4 and 5: the bytes of no file on disk, only of uploads

FileContent(f) == CASE f \in {1, 2} -> 1
                    [] f \in {3, 4} -> 2
                    [] OTHER -> 3

\* compute_sha1: the digest of the file's bytes; distinct bytes give distinct
\* digests (collisions are excluded), so the digest is named by the content.
compute_sha1(f) == FileContent(f)

\* A path string is the sequence of its names and separators:
\* "/app/data/images" is <<"/", "app", "/", "data", "/", "images">>.
\* settings.images_folder, resolved.
images_folder == <<"/", "app", "/", "data", "/", "images">>

\* Where the files are: files 1 to 4 in the images folder, file 4 under a
\* name with a backslash in it, file 5 in the uploads folder beside it.
FilePath(f) ==
    CASE f = 1 -> images_folder \o <<"/", "1.jpg">>
      [] f = 2 -> images_folder \o <<"/", "2.jpg">>
      [] f = 3 -> images_folder \o <<"/", "3.jpg">>
      [] f = 4 -> images_folder \o <<"/", "4", "\\", "4.jpg">>
      [] OTHER -> <<"/", "app", "/", "data", "/", "uploads", "/", "5.jpg">>

\* The files at a path: one or none.
FileAt(path) == {f \in Files : FilePath(f) = path}

---------------------------------------------------------------------------
(* image_store.py *)

\* str.replace('\\', '/')
ReplaceBackslashes(path) ==
    [i \in DOMAIN path |-> IF path[i] = "\\" THEN "/" ELSE path[i]]

\* Path.relative_to(base) does not raise ValueError: the path lies under base.
IsRelativeTo(path, base) ==
    /\ Len(path) > Len(base) + 1
    /\ SubSeq(path, 1, Len(base)) = base
    /\ path[Len(base) + 1] = "/"

\* get_relative_path: the path from the images folder, or the absolute path
\* when the file is not under the images folder, backslashes replaced.
get_relative_path(absolute_path) ==
    IF IsRelativeTo(absolute_path, images_folder)
    THEN ReplaceBackslashes(SubSeq(absolute_path, Len(images_folder) + 2,
                                   Len(absolute_path)))
    ELSE ReplaceBackslashes(absolute_path)

\* Path(a) / b of pathlib: b itself when b is absolute.
JoinPath(a, b) == IF b[1] = "/" THEN b ELSE a \o <<"/">> \o b

---------------------------------------------------------------------------
(* bbox.py *)

NoneFace == [bbox |-> <<>>, embedding |-> <<>>]

\* compute_bbox_area on a raw box: in quarter square pixels.
compute_bbox_area(bbox) == (bbox[3] - bbox[1]) * (bbox[4] - bbox[2])

\* Python int() of a float counted in half pixels: truncation toward zero.
int(v) == IF v >= 0 THEN v \div 2 ELSE -((-v) \div 2)

normalize_bbox(bbox) == <<int(bbox[1]), int(bbox[2]), int(bbox[3]), int(bbox[4])>>

\* The loop of select_largest_face over faces[i..], carrying
\* (largest_face, largest_area).
RECURSIVE LargestFrom(_, _, _, _)
LargestFrom(fs, i, largest_face, largest_area) ==
    IF i > Len(fs) THEN largest_face
    ELSE IF compute_bbox_area(fs[i].bbox) > largest_area
         THEN LargestFrom(fs, i + 1, fs[i], compute_bbox_area(fs[i].bbox))
         ELSE LargestFrom(fs, i + 1, largest_face, largest_area)

select_largest_face(fs) ==
    IF fs = <<>> THEN NoneFace ELSE LargestFrom(fs, 1, NoneFace, 0)

\* Mutant: a sort that is not stable, a face goes in front of the faces
\* already placed whose area equals its own.
RECURSIVE InsertByArea_TiesFirst(_, _)
InsertByArea_TiesFirst(sorted, f) ==
    IF sorted = <<>> THEN <<f>>
    ELSE IF compute_bbox_area(Head(sorted).bbox) > compute_bbox_area(f.bbox)
         THEN <<Head(sorted)>> \o InsertByArea_TiesFirst(Tail(sorted), f)
         ELSE <<f>> \o sorted

\* list.sort(key=area, reverse=True) is stable: a face goes after every face
\* already placed whose area is >= its own.
RECURSIVE InsertByArea(_, _)
InsertByArea(sorted, f) ==
    IF sorted = <<>> THEN <<f>>
    ELSE IF compute_bbox_area(Head(sorted).bbox) >= compute_bbox_area(f.bbox)
         THEN <<Head(sorted)>> \o InsertByArea(Tail(sorted), f)
         ELSE <<f>> \o sorted

RECURSIVE SortByAreaDesc(_, _)
SortByAreaDesc(fs, i) ==
    IF i = 0 THEN <<>> ELSE InsertByArea(SortByAreaDesc(fs, i - 1), fs[i])

\* Mutant: the first n faces in detector order, the sort left out.
select_first_n_faces(fs, n) ==
    IF fs = <<>> THEN <<>>
    ELSE SubSeq(fs, 1, IF Len(fs) < n THEN Len(fs) ELSE n)

select_top_n_faces(fs, n) ==
    IF fs = <<>> THEN <<>>
    ELSE LET s == SortByAreaDesc(fs, Len(fs))
         IN  SubSeq(s, 1, IF Len(s) < n THEN Len(s) ELSE n)

\* No call of the helpers yet.
NoSelection == [faces |-> <<>>, n |-> 0, called |-> FALSE,
                top_faces |-> <<>>, largest_face |-> NoneFace]

\* One call of select_top_n_faces(faces, n) and one of select_largest_face(faces)
\* on the face list drawn.
select_faces(n) ==
    /\ ~ selected.called
    /\ selected' = [selected EXCEPT
           !.n = n, !.called = TRUE,
           !.top_faces = select_top_n_faces(selected.faces, n),
           !.largest_face = select_largest_face(selected.faces)]
    /\ UNCHANGED <<photos, faces, next_id, detector, ingest, reproc, migr, env, calls,
                   face_detector, db, search, deleted, api>>

---------------------------------------------------------------------------
(* face_embedder.py: embeddings are 2-vectors of integers, a normalized    *)
(* component is counted in tenths (6 is 0.6).  The raw vectors used have   *)
(* an integer norm, so the division is exact.                              *)

Norm(e) == CHOOSE n \in 0..(e[1] * e[1] + e[2] * e[2]) :
               n * n <= e[1] * e[1] + e[2] * e[2]
               /\ (n + 1) * (n + 1) > e[1] * e[1] + e[2] * e[2]

normalize_embedding(e) ==
    IF Norm(e) = 0 THEN e
    ELSE <<(e[1] * 10) \div Norm(e), (e[2] * 10) \div Norm(e)>>

---------------------------------------------------------------------------
(* face_detector.py *)

\* detect_faces: the model's output for the decoded image, in its order.
detect_faces(c) == detector[c].faces

detect_largest_face(c) ==
    IF detect_faces(c) = <<>> THEN NoneFace ELSE select_largest_face(detect_faces(c))

---------------------------------------------------------------------------
(* The detector outputs the model draws from. *)

Boxes == {
    <<0, 0, 3, 3>>,     \* [0, 0, 1.5, 1.5]: raw area 2.25, stored (0,0,1,1)
    <<1, 0, 4, 2>>,     \* [0.5, 0, 2, 1]: raw area 1.5, stored (0,0,2,1)
    <<0, 0, 4, 4>>,     \* [0, 0, 2, 2]: pixel aligned
    <<2, 2, 3, 4>>,     \* [1, 1, 1.5, 2]: half a pixel wide
    <<2, 2, 2, 4>>,     \* [1, 1, 1, 2]: zero area
    <<4, 0, 2, 2>>,     \* [2, 0, 1, 1]: inverted, negative area
    <<-1, 0, 2, 2>> }   \* [-0.5, 0, 1, 1]: raw area 1.5, a negative coordinate

\* The embedding the recognition model gives the i-th detected face.
RawEmbedding(i) == CASE i = 1 -> <<3, 4>>
                     [] i = 2 -> <<4, 3>>
                     [] i = 3 -> <<0, 5>>
                     [] i = 4 -> <<5, 0>>
                     [] OTHER -> <<0, 0>>

DetectorOutputs(maxlen) ==
    UNION { { [i \in 1..n |-> [bbox |-> bs[i], embedding |-> RawEmbedding(i)]] :
                bs \in [1..n -> Boxes] } : n \in 0..maxlen }

Corrupt == [decodable |-> FALSE, faces |-> <<>>]
Decodes(fs) == [decodable |-> TRUE, faces |-> fs]

TwoFaces == <<[bbox |-> <<1, 0, 4, 2>>, embedding |-> RawEmbedding(1)],
              [bbox |-> <<0, 0, 3, 3>>, embedding |-> RawEmbedding(2)]>>

---------------------------------------------------------------------------
(* Storage layer (PostgreSQL schema of the repository). *)

\* Optional[str]: None is the empty tuple, a string s the tuple <<s>>.
None == <<>>

\* Mutant: the photos table without the unique constraint on sha1.
NoUniqueConstraint(sha1_hash) == FALSE

\* UNIQUE (sha1) on photos.
UniqueViolation(sha1_hash) == \E p \in photos : p.sha1 = sha1_hash

\* faces.photo_id REFERENCES photos (id).
ForeignKeyViolation(photo_id) == ~ \E p \in photos : p.id = photo_id

FacesOf(photo_id) == {f \in faces : f.photo_id = photo_id}

FaceRow(id, photo_id, face, is_primary) ==
    [id |-> id, photo_id |-> photo_id, bbox |-> normalize_bbox(face.bbox),
     embedding |-> normalize_embedding(face.embedding), is_primary |-> is_primary,
     raw |-> face.bbox]     \* raw: history only, the box the row was derived from

---------------------------------------------------------------------------
(* ingest_service.py *)

ZeroStats == [processed |-> 0, skipped |-> 0, errors |-> 0]

\* folder_exists: history only, whether the folder of the call existed.
IdleWorker == [pc |-> "idle", folder_exists |-> TRUE,
               image_files |-> <<>>, idx |-> 0, stats |-> ZeroStats,
               sha1_hash |-> 0, face |-> NoneFace, photo_id |-> 0,
               dup_found |-> FALSE, decoded |-> FALSE, detected |-> FALSE]

\* The file the loop of ingest_folder is at.
CurFile(w) == ingest[w].image_files[ingest[w].idx + 1]

\* Mutant: a duplicate check against every fingerprint ever stored.
check_duplicate_ever_stored(sha1_hash) ==
    \/ \E p \in photos : p.sha1 = sha1_hash
    \/ \E i \in DOMAIN calls : calls[i].success /\ FileContent(calls[i].file) = sha1_hash

\* Mutant: a duplicate check that never finds a row.
check_duplicate_never(sha1_hash) == FALSE

\* check_duplicate: SELECT id FROM photos WHERE sha1 = %s finds a row.
check_duplicate(sha1_hash) == \E p \in photos : p.sha1 = sha1_hash

\* Mutant: only "duplicate" is counted as skipped, "no_face" goes to errors.
Count_NoFaceAsError(stats, success, message) ==
    IF success THEN [stats EXCEPT !.processed = @ + 1]
    ELSE IF message = "duplicate"
         THEN [stats EXCEPT !.skipped = @ + 1]
         ELSE [stats EXCEPT !.errors = @ + 1]

\* ingest_folder lines 150-155: the counter an ingest_image result goes to.
Count(stats, success, message) ==
    IF success THEN [stats EXCEPT !.processed = @ + 1]
    ELSE IF message = "duplicate" \/ message = "no_face"
         THEN [stats EXCEPT !.skipped = @ + 1]
         ELSE [stats EXCEPT !.errors = @ + 1]

\* ingest_image returns (success, message) to the loop of ingest_folder, which
\* counts it and goes to the next file or returns the stats.  me: the caller's
\* record with the locals of the call that returns; they end with the call.
Return(w, me, success, message) ==
    /\ ingest' = [ingest EXCEPT ![w] =
           [IdleWorker EXCEPT
               !.pc = IF me.idx + 1 = Len(me.image_files) THEN "done" ELSE "check",
               !.folder_exists = me.folder_exists,
               !.image_files = me.image_files,
               !.idx = me.idx + 1,
               !.stats = Count(me.stats, success, message)]]
    /\ calls' = Append(calls,
           [w |-> w, file |-> me.image_files[me.idx + 1],
            message |-> message, success |-> success, photo_id |-> me.photo_id,
            dup_found |-> me.dup_found, decoded |-> me.decoded,
            detected |-> me.detected])

\* face_detector.initialize(): returns at once when _initialized is set, else
\* loads the model; the exception of a model that does not load is re-raised.
initialize_raises(fd) == ~ fd._initialized /\ ~ fd.loadable

\* Mutant: a failed folder scan reported with all counters zero.
ScanNotCounted == ZeroStats

\* ingest_folder lines 135-137: what is returned when get_supported_images raises.
ScanFailed == [ZeroStats EXCEPT !.errors = 1]

\* ingest_folder lines 129-145: initialize the detector, scan the folder
\* (get_supported_images raises when the folder does not exist, else returns
\* the sorted listing), zero the counters.  The event tag is left at its
\* default, None.
StartFolder(w, exists, listing) ==
    /\ ingest[w].pc = "idle"
    /\ IF initialize_raises(face_detector[w])
       THEN /\ ingest' = [ingest EXCEPT ![w] =
                   [IdleWorker EXCEPT !.pc = "raised", !.folder_exists = exists]]
            /\ UNCHANGED face_detector
       ELSE /\ face_detector' = [face_detector EXCEPT ![w]._initialized = TRUE]
            /\ ingest' = [ingest EXCEPT ![w] =
                   IF ~ exists
                   THEN [IdleWorker EXCEPT !.pc = "done", !.folder_exists = FALSE,
                                           !.stats = ScanFailed]
                   ELSE [IdleWorker EXCEPT
                            !.pc = IF listing = <<>> THEN "done" ELSE "check",
                            !.image_files = listing]]
    /\ UNCHANGED <<photos, faces, next_id, detector, reproc, migr, env, calls, db, search, deleted, selected, api>>

\* Mutant: load_image moved in front of the duplicate check.
IngestCheck_LoadFirst(w) ==
    /\ ingest[w].pc = "check"
    /\ db[w] = "open"
    /\ LET sha1_hash == compute_sha1(CurFile(w))
           me == [ingest[w] EXCEPT !.sha1_hash = sha1_hash,
                                   !.decoded = TRUE,
                                   !.dup_found = check_duplicate(sha1_hash)]
       IN  IF check_duplicate(sha1_hash)
           THEN Return(w, me, FALSE, "duplicate")
           ELSE /\ ingest' = [ingest EXCEPT ![w] = [me EXCEPT !.pc = "detect"]]
                /\ UNCHANGED calls
    /\ UNCHANGED <<photos, faces, next_id, detector, reproc, migr, env, face_detector, db, search, deleted, selected, api>>

\* ingest_image lines 55-61: hash the file, then the duplicate check.
IngestCheck(w) ==
    /\ ingest[w].pc = "check"
    /\ db[w] = "open"
    /\ LET sha1_hash == compute_sha1(CurFile(w))
           me == [ingest[w] EXCEPT !.sha1_hash = sha1_hash,
                                   !.dup_found = check_duplicate(sha1_hash)]
       IN  IF check_duplicate(sha1_hash)
           THEN Return(w, me, FALSE, "duplicate")
           ELSE /\ ingest' = [ingest EXCEPT ![w] = [me EXCEPT !.pc = "detect"]]
                /\ UNCHANGED calls
    /\ UNCHANGED <<photos, faces, next_id, detector, reproc, migr, env, face_detector, db, search, deleted, selected, api>>

\* ingest_image lines 63-90: load_image, detect_largest_face, then INSERT INTO
\* photos with a fresh uuid.
IngestDetect(w) ==
    /\ ingest[w].pc = "detect"
    /\ db[w] = "open"
    /\ LET c == FileContent(CurFile(w))
           face == detect_largest_face(c)
           loaded == [ingest[w] EXCEPT !.decoded = TRUE]
           found == [loaded EXCEPT !.detected = TRUE, !.face = face]
           photo_id == next_id.photo
           mine == [found EXCEPT !.photo_id = photo_id]
       IN  IF ~ detector[c].decodable
           THEN /\ Return(w, loaded, FALSE, "decode_error")
                /\ UNCHANGED <<photos, next_id>>
           ELSE IF face = NoneFace
           THEN /\ Return(w, [loaded EXCEPT !.detected = TRUE], FALSE, "no_face")
                /\ UNCHANGED <<photos, next_id>>
           ELSE /\ photo_id <= MaxPhotoRows
                /\ IF UniqueViolation(mine.sha1_hash)
                   THEN /\ Return(w, mine, FALSE, "unique_violation")
                        /\ UNCHANGED <<photos, next_id>>
                   ELSE /\ photos' = photos \cup
                               {[id |-> photo_id,
                                 path |-> get_relative_path(FilePath(CurFile(w))),
                                 sha1 |-> mine.sha1_hash, event_tag |-> None]}
                        /\ next_id' = [next_id EXCEPT !.photo = @ + 1]
                        /\ ingest' = [ingest EXCEPT ![w] =
                               [mine EXCEPT !.pc = "insert_face"]]
                        /\ UNCHANGED calls
    /\ UNCHANGED <<faces, detector, reproc, migr, env, face_detector, db, search, deleted, selected, api>>

\* ingest_image lines 92-106: INSERT INTO faces, the one face, is_primary = True.
IngestInsertFace(w) ==
    /\ ingest[w].pc = "insert_face"
    /\ db[w] = "open"
    /\ next_id.face <= MaxFaceRows
    /\ IF ForeignKeyViolation(ingest[w].photo_id)
       THEN /\ Return(w, ingest[w], FALSE, "foreign_key_violation")
            /\ UNCHANGED <<faces, next_id>>
       ELSE /\ faces' = faces \cup
                   {FaceRow(next_id.face, ingest[w].photo_id, ingest[w].face, TRUE)}
            /\ next_id' = [next_id EXCEPT !.face = @ + 1]
            /\ Return(w, ingest[w], TRUE, "success")
    /\ UNCHANGED <<photos, detector, reproc, migr, env, face_detector, db, search, deleted, selected, api>>

\* A database call of ingest_image raises: get_cursor rolls the statement
\* back, ingest_image lines 108-110 return (False, str(e)).
ReturnError(w, message) ==
    LET c == FileContent(CurFile(w))
        me == ingest[w]
    IN  \/ /\ me.pc = "check"
           /\ Return(w, [me EXCEPT !.sha1_hash = compute_sha1(CurFile(w))],
                     FALSE, message)
        \/ /\ me.pc = "detect"
           /\ detector[c].decodable
           /\ detect_largest_face(c) # NoneFace
           /\ Return(w, [me EXCEPT !.decoded = TRUE, !.detected = TRUE,
                                   !.face = detect_largest_face(c),
                                   !.photo_id = next_id.photo],
                     FALSE, message)
        \/ /\ me.pc = "insert_face"
           /\ Return(w, me, FALSE, message)

\* The statement fails on a connection that stays usable (a timeout, a
\* deadlock, a full disk).
IngestStorageError(w) ==
    /\ db[w] = "open"
    /\ env.faults < MaxFaults
    /\ env' = [env EXCEPT !.faults = @ + 1]
    /\ ReturnError(w, "storage_error")
    /\ UNCHANGED <<photos, faces, next_id, detector, reproc, migr, face_detector, db, search, deleted, selected, api>>

\* The statement fails because the connection is lost.  The Database object
\* keeps the dead connection: get_cursor (db.py lines 38-39) connects only
\* when there is no connection object.
IngestConnectionLost(w) ==
    /\ db[w] = "open"
    /\ env.faults < MaxFaults
    /\ env' = [env EXCEPT !.faults = @ + 1]
    /\ db' = [db EXCEPT ![w] = "closed"]
    /\ ReturnError(w, "connection_lost")
    /\ UNCHANGED <<photos, faces, next_id, detector, reproc, migr, face_detector, search, deleted, selected, api>>

\* ingest_image on a dead connection: the file is hashed, check_duplicate
\* raises at self._connection.cursor() (db.py line 41), lines 108-110 return
\* (False, str(e)).
IngestConnectionClosed(w) ==
    /\ db[w] = "closed"
    /\ ingest[w].pc = "check"
    /\ Return(w, [ingest[w] EXCEPT !.sha1_hash = compute_sha1(CurFile(w))],
              FALSE, "connection_closed")
    /\ UNCHANGED <<photos, faces, next_id, detector, reproc, migr, env, face_detector, db, search, deleted, selected, api>>

---------------------------------------------------------------------------
(* scripts/reprocess_photos.py *)

TopN == 3

\* The Faces a Photo retains, Face ids aside.
Retained(photo_id) ==
    {<<f.bbox, f.embedding, f.is_primary>> : f \in FacesOf(photo_id)}

\* failed: stats['failed'].
IdlePass == [pc |-> "idle", photos |-> <<>>, idx |-> 0, top_faces |-> <<>>,
             face_idx |-> 0, failed |-> 0]

\* Line 80: full_path = Path(settings.images_folder) / photo_path.
FullPath(photo) == JoinPath(images_folder, photo.path)

\* The bytes load_image(full_path) reads.
PhotoContent(photo) == FileContent(CHOOSE f \in FileAt(FullPath(photo)) : TRUE)

\* ORDER BY created_at: photos are created in the order their ids are handed out.
RECURSIVE OrderByCreated(_)
OrderByCreated(S) ==
    IF S = {} THEN <<>>
    ELSE LET first == CHOOSE p \in S : \A q \in S : p.id <= q.id
         IN  <<first>> \o OrderByCreated(S \ {first})

\* `continue`: on to the next photo of the list fetched, or the end of the pass.
NextPhoto(me) ==
    [me EXCEPT !.pc = IF me.idx + 1 = Len(me.photos) THEN "done" ELSE "photo",
               !.idx = @ + 1, !.top_faces = <<>>, !.face_idx = 0]

\* Lines 83-85 and 145-148: stats['failed'] += 1; continue.
Failed(me) == [NextPhoto(me) EXCEPT !.failed = @ + 1]

\* Lines 41-53: SELECT id, path, ... FROM photos ORDER BY created_at.
ReprocessFetch(r) ==
    /\ reproc[r].pc = "idle"
    /\ reproc' = [reproc EXCEPT ![r] =
           [IdlePass EXCEPT !.pc = IF photos = {} THEN "done" ELSE "photo",
                            !.photos = OrderByCreated(photos)]]
    /\ UNCHANGED <<photos, faces, next_id, detector, ingest, migr, env, calls, face_detector, db, search, deleted, selected, api>>

\* Mutant: the photo's old Faces are kept when new ones were detected.
ReprocessPhoto_KeepFaces(r) ==
    /\ reproc[r].pc = "photo"
    /\ LET me == reproc[r]
           photo == me.photos[me.idx + 1]
           c == PhotoContent(photo)
           all_faces == detect_faces(c)
       IN  IF FileAt(FullPath(photo)) = {} \/ ~ detector[c].decodable
           THEN /\ reproc' = [reproc EXCEPT ![r] = Failed(me)]
                /\ UNCHANGED faces
           ELSE IF all_faces = <<>>
           THEN /\ faces' = faces \ FacesOf(photo.id)
                /\ reproc' = [reproc EXCEPT ![r] = NextPhoto(me)]
           ELSE /\ faces' = faces
                /\ reproc' = [reproc EXCEPT ![r] =
                       [me EXCEPT !.pc = "insert",
                                  !.top_faces = select_top_n_faces(all_faces, TopN),
                                  !.face_idx = 0]]
    /\ UNCHANGED <<photos, next_id, detector, ingest, migr, env, calls, face_detector, db, search, deleted, selected, api>>

\* Lines 64-110: count the faces, look for the file, load the image,
\* detect_faces, select the top faces, DELETE FROM faces WHERE photo_id = %s.
\* A file that is not there or does not decode counts as failed.
ReprocessPhoto(r) ==
    /\ reproc[r].pc = "photo"
    /\ LET me == reproc[r]
           photo == me.photos[me.idx + 1]
           c == PhotoContent(photo)
           all_faces == detect_faces(c)
       IN  IF FileAt(FullPath(photo)) = {} \/ ~ detector[c].decodable
           THEN /\ reproc' = [reproc EXCEPT ![r] = Failed(me)]
                /\ UNCHANGED faces
           ELSE IF all_faces = <<>>
           THEN /\ faces' = faces \ FacesOf(photo.id)
                /\ reproc' = [reproc EXCEPT ![r] = NextPhoto(me)]
           ELSE /\ faces' = faces \ FacesOf(photo.id)
                /\ reproc' = [reproc EXCEPT ![r] =
                       [me EXCEPT !.pc = "insert",
                                  !.top_faces = select_top_n_faces(all_faces, TopN),
                                  !.face_idx = 0]]
    /\ UNCHANGED <<photos, next_id, detector, ingest, migr, env, calls, face_detector, db, search, deleted, selected, api>>

\* Lines 113-132: one INSERT INTO faces of the loop over top_faces; a raised
\* constraint violation is caught at line 145 and the pass continues.
ReprocessInsertFace(r) ==
    /\ reproc[r].pc = "insert"
    /\ next_id.face <= MaxFaceRows
    /\ LET me == reproc[r]
           photo == me.photos[me.idx + 1]
           face == me.top_faces[me.face_idx + 1]
       IN  IF ForeignKeyViolation(photo.id)
           THEN /\ reproc' = [reproc EXCEPT ![r] = Failed(me)]
                /\ UNCHANGED <<faces, next_id>>
           ELSE /\ faces' = faces \cup
                       {FaceRow(next_id.face, photo.id, face, me.face_idx = 0)}
                /\ next_id' = [next_id EXCEPT !.face = @ + 1]
                /\ reproc' = [reproc EXCEPT ![r] =
                       IF me.face_idx + 1 = Len(me.top_faces)
                       THEN NextPhoto(me)
                       ELSE [me EXCEPT !.face_idx = @ + 1]]
    /\ UNCHANGED <<photos, detector, ingest, migr, env, calls, face_detector, db, search, deleted, selected, api>>

\* A database call inside the per-photo try raises (connection loss): lines
\* 145-148 count the photo as failed and continue.
ReprocessStorageError(r) ==
    /\ env.faults < MaxFaults
    /\ reproc[r].pc \in {"photo", "insert"}
    /\ env' = [env EXCEPT !.faults = @ + 1]
    /\ reproc' = [reproc EXCEPT ![r] = Failed(reproc[r])]
    /\ UNCHANGED <<photos, faces, next_id, detector, ingest, migr, calls, face_detector, db, search, deleted, selected, api>>

\* Mutant: the photo's Faces are deleted before the file is looked for.
ReprocessPhotoFails_DeleteFirst(r, failure) ==
    /\ reproc[r].pc = "photo"
    /\ faces' = faces \ FacesOf(reproc[r].photos[reproc[r].idx + 1].id)
    /\ reproc' = [reproc EXCEPT ![r] = Failed(reproc[r])]
    /\ UNCHANGED <<photos, next_id, detector, ingest, migr, env, calls, face_detector, db, search, deleted, selected, api>>

\* What has happened to the photo's file since it was ingested, or happens to
\* the detector now: the file is gone (lines 82-85), its bytes do not decode
\* any more or detect_faces raises (lines 88-91 and 145-148).
Failures == {"missing", "decode_error", "detect_error"}

\* The photo is counted as failed and the pass continues; nothing was
\* written, the DELETE of line 107 comes after the detection.
ReprocessPhotoFails(r, failure) ==
    /\ reproc[r].pc = "photo"
    /\ reproc' = [reproc EXCEPT ![r] = Failed(reproc[r])]
    /\ UNCHANGED <<photos, faces, next_id, detector, ingest, migr, env, calls, face_detector, db, search, deleted, selected, api>>

---------------------------------------------------------------------------
(* scripts/update_to_top3_faces.py *)

compute_face_area(bbox) == (bbox[3] - bbox[1]) * (bbox[4] - bbox[2])

IdleMigration == [pc |-> "idle", photos |-> <<>>, idx |-> 0, faces |-> <<>>,
                  del_idx |-> 0]

\* ORDER BY (x2 - x1) * (y2 - y1) DESC: every order of the rows by stored area,
\* rows of equal area in any order.
RECURSIVE OrdersByAreaDesc(_)
OrdersByAreaDesc(S) ==
    IF S = {} THEN {<<>>}
    ELSE UNION { { <<f.id>> \o rest : rest \in OrdersByAreaDesc(S \ {f}) } :
                 f \in {g \in S : \A h \in S :
                           compute_face_area(g.bbox) >= compute_face_area(h.bbox)} }

NextMigrated(me) ==
    [me EXCEPT !.pc = IF me.idx + 1 = Len(me.photos) THEN "done" ELSE "photo",
               !.idx = @ + 1, !.faces = <<>>, !.del_idx = 0]

\* Lines 37-50: SELECT DISTINCT p.id ... FROM photos p INNER JOIN faces f.
MigrateFetch ==
    /\ migr.pc = "idle"
    /\ LET joined == {p \in photos : FacesOf(p.id) # {}}
       IN  migr' = [IdleMigration EXCEPT
                       !.pc = IF joined = {} THEN "done" ELSE "photo",
                       !.photos = OrderByCreated(joined)]
    /\ UNCHANGED <<photos, faces, next_id, detector, ingest, reproc, env, calls, face_detector, db, search, deleted, selected, api>>

\* Lines 56-76 and 99-102: SELECT the photo's faces by area; with more than
\* three the rows after the third are to be deleted.
MigrateSelectFaces ==
    /\ migr.pc = "photo"
    /\ \E order \in OrdersByAreaDesc(FacesOf(migr.photos[migr.idx + 1].id)) :
           migr' = IF Len(order) = 0
                   THEN NextMigrated(migr)
                   ELSE [migr EXCEPT !.faces = order,
                                     !.pc = IF Len(order) <= 3 THEN "unset" ELSE "delete",
                                     !.del_idx = 3]
    /\ UNCHANGED <<photos, faces, next_id, detector, ingest, reproc, env, calls, face_detector, db, search, deleted, selected, api>>

\* Lines 105-109: DELETE FROM faces WHERE id = %s, one row of faces[3:].
MigrateDeleteFace ==
    /\ migr.pc = "delete"
    /\ faces' = {f \in faces : f.id # migr.faces[migr.del_idx + 1]}
    /\ migr' = [migr EXCEPT !.del_idx = @ + 1,
                            !.pc = IF migr.del_idx + 1 = Len(migr.faces)
                                   THEN "unset" ELSE "delete"]
    /\ UNCHANGED <<photos, next_id, detector, ingest, reproc, env, calls, face_detector, db, search, deleted, selected, api>>

\* Lines 78-85 and 112-119: UPDATE faces SET is_primary = false WHERE photo_id = %s.
MigrateUnsetPrimary ==
    /\ migr.pc = "unset"
    /\ faces' = {IF f.photo_id = migr.photos[migr.idx + 1].id
                 THEN [f EXCEPT !.is_primary = FALSE] ELSE f : f \in faces}
    /\ migr' = [migr EXCEPT !.pc = "set"]
    /\ UNCHANGED <<photos, next_id, detector, ingest, reproc, env, calls, face_detector, db, search, deleted, selected, api>>

\* Lines 88-95 and 122-129: UPDATE faces SET is_primary = true WHERE id = %s.
MigrateSetPrimary ==
    /\ migr.pc = "set"
    /\ faces' = {IF f.id = migr.faces[1]
                 THEN [f EXCEPT !.is_primary = TRUE] ELSE f : f \in faces}
    /\ migr' = NextMigrated(migr)
    /\ UNCHANGED <<photos, next_id, detector, ingest, reproc, env, calls, face_detector, db, search, deleted, selected, api>>

---------------------------------------------------------------------------
(* admin_service.py *)

\* The ids a caller can name: those handed out so far, and 0 for an id that
\* is never handed out.
PhotoIds == 0..(next_id.photo - 1)

\* Mutant: the rowcount of the first statement, the DELETE FROM faces.
delete_photo_rowcount_faces(photo_id) == Cardinality(FacesOf(photo_id))

\* cur.rowcount after the last statement, DELETE FROM photos WHERE id = %s.
delete_photo_rowcount(photo_id) == Cardinality({p \in photos : p.id = photo_id})

\* Mutant: only the photos row is deleted.
delete_photo_row_only(photo_id) ==
    /\ env.deletes < MaxDeletes
    /\ env' = [env EXCEPT !.deletes = @ + 1]
    /\ photos' = {p \in photos : p.id # photo_id}
    /\ deleted' = Append(deleted, [photo_id |-> photo_id, raised |-> FALSE,
                                   returned |-> delete_photo_rowcount(photo_id) > 0])
    /\ UNCHANGED <<faces, next_id, detector, ingest, reproc, migr, calls, face_detector, db, search, selected, api>>

\* delete_photo: DELETE FROM faces WHERE photo_id, DELETE FROM photos WHERE id,
\* in one get_cursor block, so one transaction; returns cur.rowcount > 0.
delete_photo(photo_id) ==
    /\ env.deletes < MaxDeletes
    /\ env' = [env EXCEPT !.deletes = @ + 1]
    /\ faces' = faces \ FacesOf(photo_id)
    /\ photos' = {p \in photos : p.id # photo_id}
    /\ deleted' = Append(deleted, [photo_id |-> photo_id, raised |-> FALSE,
                                   returned |-> delete_photo_rowcount(photo_id) > 0])
    /\ UNCHANGED <<next_id, detector, ingest, reproc, migr, calls, face_detector, db, search, selected, api>>

\* A statement of delete_photo raises: get_cursor (db.py lines 45-48) rolls
\* the transaction back, whatever the first DELETE removed is there again, and
\* the exception goes to the caller.
DeletePhotoStorageError(photo_id) ==
    /\ env.deletes < MaxDeletes
    /\ env.faults < MaxFaults
    /\ env' = [env EXCEPT !.deletes = @ + 1, !.faults = @ + 1]
    /\ deleted' = Append(deleted, [photo_id |-> photo_id, raised |-> TRUE,
                                   returned |-> FALSE])
    /\ UNCHANGED <<photos, faces, next_id, detector, ingest, reproc, migr, calls, face_detector, db, search, selected, api>>

\* update_photo_tag: UPDATE photos SET event_tag = %s WHERE id = %s.
update_photo_tag(photo_id, event_tag) ==
    /\ photos' = {IF p.id = photo_id THEN [p EXCEPT !.event_tag = event_tag] ELSE p :
                     p \in photos}
    /\ UNCHANGED <<faces, next_id, detector, ingest, reproc, migr, env, calls, face_detector, db, search, deleted, selected, api>>

---------------------------------------------------------------------------
(* search_service.py.  Similarities, distances and thresholds are counted  *)
(* in hundredths (96 is 0.96).                                             *)

\* Mutant: the embedding of the face the detector lists first.
get_embedding_first_face(image) ==
    IF detect_faces(image) = <<>> THEN None
    ELSE normalize_embedding(detect_faces(image)[1].embedding)

\* face_embedder.get_embedding: the normalized embedding of the largest face
\* of the image, None when detect_largest_face returns None.
get_embedding(image) ==
    IF detect_largest_face(image) = NoneFace THEN None
    ELSE normalize_embedding(detect_largest_face(image).embedding)

\* a <=> b of the vector extension on two nonzero vectors: the cosine
\* distance 1 - a.b / (|a| |b|).
CosineDistance(a, b) ==
    100 - (100 * (a[1] * b[1] + a[2] * b[2])) \div (Norm(a) * Norm(b))

\* Line 49: 1 - (f.embedding <=> %s::vector) as similarity.
Similarity(f, query_embedding) == 100 - CosineDistance(f.embedding, query_embedding)

\* Mutant: Faces are ranked whatever their is_primary.
AnyFace(f) == TRUE

\* Line 52: WHERE f.is_primary = true.
PrimaryClause(f) == f.is_primary

\* Lines 57-59: `if event_tag:` adds AND p.event_tag = %s; None and the empty
\* string are both false in Python.
EventTagClause(p, event_tag) ==
    (event_tag # None /\ event_tag # <<"">>) => p.event_tag = event_tag

\* Mutant: the threshold is not applied.
NoThreshold(similarity, threshold) == TRUE

\* Line 62: AND (1 - (f.embedding <=> %s::vector)) >= %s.
ThresholdClause(similarity, threshold) == similarity >= threshold

\* Lines 42-63: the rows of faces JOIN photos that pass the WHERE clause.
\* face: history only, the Face the row comes from.
Selected(query_embedding, threshold, event_tag) ==
    {[photo_id |-> p.id, event_tag |-> p.event_tag,
      similarity |-> Similarity(f, query_embedding), face |-> f.id] :
        <<f, p>> \in {fp \in faces \X photos :
                        /\ fp[1].photo_id = fp[2].id
                        /\ PrimaryClause(fp[1])
                        /\ EventTagClause(fp[2], event_tag)
                        /\ ThresholdClause(Similarity(fp[1], query_embedding),
                                           threshold)}}

\* Line 66: ORDER BY f.embedding <=> %s::vector: every order of the rows by
\* distance, rows of equal distance in any order (no further sort key).
RECURSIVE OrdersByDistance(_)
OrdersByDistance(rows) ==
    IF rows = {} THEN {<<>>}
    ELSE UNION { { <<r>> \o rest : rest \in OrdersByDistance(rows \ {r}) } :
                 r \in {x \in rows : \A y \in rows : x.similarity >= y.similarity} }

\* Line 66: LIMIT %s.
Limit(rows, top_k) == SubSeq(rows, 1, IF Len(rows) < top_k THEN Len(rows) ELSE top_k)

\* search_similar_faces: the result lists the one query can return.
search_similar_faces(query_embedding, top_k, threshold, event_tag) ==
    {Limit(rows, top_k) :
        rows \in OrdersByDistance(Selected(query_embedding, threshold, event_tag))}

\* timeline: history only, what the call did in the order it did it;
\* "start" is line 114, start_time = time.time(), and "stop" line 122,
\* query_time = (time.time() - start_time) * 1000.
NoSearch == [args |-> <<>>, raised |-> FALSE, face_found |-> FALSE,
             ranked |-> FALSE, results |-> <<>>, timeline |-> <<>>]

Decoded == <<"start", "decode">>
Measured == <<"start", "decode", "detect", "stop">>

\* Mutant: the ranking query is issued also when no embedding was obtained,
\* with the embedding of no face.
search_by_image_always_ranks(image_data, top_k, threshold, event_tag) ==
    /\ LET args == <<image_data, top_k, threshold, event_tag>>
           embedding == get_embedding(image_data)
       IN  IF ~ detector[image_data].decodable
           THEN search' = [NoSearch EXCEPT !.args = args, !.raised = TRUE,
                                           !.timeline = Decoded]
           ELSE \E results \in search_similar_faces(
                                  IF embedding = None THEN <<10, 0>> ELSE embedding,
                                  top_k, threshold, event_tag) :
                    search' = [NoSearch EXCEPT !.args = args,
                                               !.face_found = embedding # None,
                                               !.ranked = TRUE,
                                               !.results = results,
                                               !.timeline = Append(Measured, "rank")]
    /\ UNCHANGED <<photos, faces, next_id, detector, ingest, reproc, migr, env, calls, face_detector, db, deleted, selected, api>>

\* search_by_image: load_image_from_bytes (raises when the bytes do not
\* decode), get_embedding, the elapsed time taken (line 122), and
\* search_similar_faces unless there is no face.
\* ranked: history only, whether the ranking query was issued.
search_by_image(image_data, top_k, threshold, event_tag) ==
    /\ LET args == <<image_data, top_k, threshold, event_tag>>
           embedding == get_embedding(image_data)
       IN  IF ~ detector[image_data].decodable
           THEN search' = [NoSearch EXCEPT !.args = args, !.raised = TRUE,
                                           !.timeline = Decoded]
           ELSE IF embedding = None
           THEN search' = [NoSearch EXCEPT !.args = args, !.timeline = Measured]
           ELSE \E results \in search_similar_faces(embedding, top_k, threshold,
                                                    event_tag) :
                    search' = [NoSearch EXCEPT !.args = args,
                                               !.face_found = TRUE,
                                               !.ranked = TRUE,
                                               !.results = results,
                                               !.timeline = Append(Measured, "rank")]
    /\ UNCHANGED <<photos, faces, next_id, detector, ingest, reproc, migr, env, calls, face_detector, db, deleted, selected, api>>

---------------------------------------------------------------------------
(* The API process (main.py, routes_search.py, routes_ingest.py): every    *)
(* route is an async function run by one event loop on one thread, so a    *)
(* handler gives the thread up only where it awaits or returns.  The       *)
(* FaceDetector of the process is the module's global instance: app is     *)
(* None, "unprepared" (FaceAnalysis constructed) or "prepared".            *)

NumRequests == 3        \* requests in flight in the API process
MaxLoadFailures == 1    \* model loads that raise

Requests == 1..NumRequests

\* search: POST /search; upload: POST /upload.
RouteKinds == {"search", "upload"}

IdleRequest == [pc |-> "idle", kind |-> "search", in_detect |-> FALSE]

NoApi == [fd |-> [_initialized |-> FALSE, app |-> None],
          running |-> 0, req |-> [r \in Requests |-> IdleRequest],
          loads |-> 0, failures |-> 0]

\* Mutant: the handlers run on threads, a handler can be preempted anywhere.
PreemptedAnywhere(pc) == TRUE

\* routes_search.py line 51, `await file.read()`: the one await of the
\* handlers that use the detector.
AwaitPoint(pc) == pc = "read"

\* The event loop runs request r: r holds the thread, or the thread is free
\* and r is new or suspended at an await.
Scheduled(r) ==
    \/ api.running = r
    \/ /\ api.running = 0
       /\ api.req[r].pc = "idle" \/ AwaitPoint(api.req[r].pc)

\* Who holds the thread once r has moved to pc.
Holds(r, pc) == IF AwaitPoint(pc) \/ pc \in {"done", "failed"} THEN 0 ELSE r

\* Where initialize() returns to: detect_faces line 70, the search handler's
\* line 51, or ingest_folder and on to detect_largest_face.
AfterInitialize(me) ==
    IF me.in_detect THEN "get"
    ELSE IF me.kind = "search" THEN "read" ELSE "detect"

\* The handler is entered and calls face_detector.initialize()
\* (routes_search.py line 48, ingest_service.py line 130).
BeginRequest(r, kind) ==
    /\ api.req[r].pc = "idle"
    /\ Scheduled(r)
    /\ api' = [api EXCEPT !.req[r] = [IdleRequest EXCEPT !.pc = "initialize",
                                                         !.kind = kind],
                          !.running = Holds(r, "initialize")]
    /\ UNCHANGED <<photos, faces, next_id, detector, ingest, reproc, migr, env, calls,
                   face_detector, db, search, deleted, selected>>

\* initialize lines 21-22: `if self._initialized: return`.
InitializeTest(r) ==
    /\ api.req[r].pc = "initialize"
    /\ Scheduled(r)
    /\ LET pc == IF api.fd._initialized THEN AfterInitialize(api.req[r]) ELSE "load"
       IN  api' = [api EXCEPT !.req[r].pc = pc, !.running = Holds(r, pc)]
    /\ UNCHANGED <<photos, faces, next_id, detector, ingest, reproc, migr, env, calls,
                   face_detector, db, search, deleted, selected>>

\* initialize lines 41-45: self.app = FaceAnalysis(...), the model is loaded.
InitializeLoad(r) ==
    /\ api.req[r].pc = "load"
    /\ Scheduled(r)
    /\ api' = [api EXCEPT !.req[r].pc = "prepare",
                          !.running = Holds(r, "prepare"),
                          !.fd.app = <<"unprepared">>,
                          !.loads = @ + 1]
    /\ UNCHANGED <<photos, faces, next_id, detector, ingest, reproc, migr, env, calls,
                   face_detector, db, search, deleted, selected>>

\* initialize lines 47-48: self.app.prepare(...), self._initialized = True.
InitializePrepare(r) ==
    /\ api.req[r].pc = "prepare"
    /\ Scheduled(r)
    /\ LET pc == AfterInitialize(api.req[r])
       IN  api' = [api EXCEPT !.req[r].pc = pc, !.running = Holds(r, pc),
                              !.fd.app = <<"prepared">>,
                              !.fd._initialized = TRUE]
    /\ UNCHANGED <<photos, faces, next_id, detector, ingest, reproc, migr, env, calls,
                   face_detector, db, search, deleted, selected>>

\* initialize lines 50-52: the import, FaceAnalysis(...) or prepare raises;
\* the exception is logged and re-raised, the handler answers with status 500.
InitializeRaises(r) ==
    /\ api.req[r].pc \in {"load", "prepare"}
    /\ Scheduled(r)
    /\ api.failures < MaxLoadFailures
    /\ api' = [api EXCEPT !.req[r].pc = "failed", !.running = Holds(r, "failed"),
                          !.failures = @ + 1]
    /\ UNCHANGED <<photos, faces, next_id, detector, ingest, reproc, migr, env, calls,
                   face_detector, db, search, deleted, selected>>

\* routes_search.py line 51: the upload has been read, the handler resumes and
\* calls search_by_image, which comes to detect_faces.
ReadUpload(r) ==
    /\ api.req[r].pc = "read"
    /\ Scheduled(r)
    /\ api' = [api EXCEPT !.req[r].pc = "detect", !.running = Holds(r, "detect")]
    /\ UNCHANGED <<photos, faces, next_id, detector, ingest, reproc, migr, env, calls,
                   face_detector, db, search, deleted, selected>>

\* detect_faces lines 67-68: `if not self._initialized: self.initialize()`.
DetectFacesTest(r) ==
    /\ api.req[r].pc = "detect"
    /\ Scheduled(r)
    /\ LET pc == IF api.fd._initialized THEN "get" ELSE "initialize"
       IN  api' = [api EXCEPT !.req[r].pc = pc, !.running = Holds(r, pc),
                              !.req[r].in_detect = ~ api.fd._initialized]
    /\ UNCHANGED <<photos, faces, next_id, detector, ingest, reproc, migr, env, calls,
                   face_detector, db, search, deleted, selected>>

\* detect_faces line 74: self.app.get(image_bgr); the handler then returns.
DetectFacesGet(r) ==
    /\ api.req[r].pc = "get"
    /\ Scheduled(r)
    /\ api' = [api EXCEPT !.req[r].pc = "done", !.running = Holds(r, "done")]
    /\ UNCHANGED <<photos, faces, next_id, detector, ingest, reproc, migr, env, calls,
                   face_detector, db, search, deleted, selected>>

NextApi ==
    \/ \E r \in Requests : \E kind \in RouteKinds : BeginRequest(r, kind)
    \/ \E r \in Requests : InitializeTest(r)
    \/ \E r \in Requests : InitializeLoad(r)
    \/ \E r \in Requests : InitializePrepare(r)
    \/ \E r \in Requests : InitializeRaises(r)
    \/ \E r \in Requests : ReadUpload(r)
    \/ \E r \in Requests : DetectFacesTest(r)
    \/ \E r \in Requests : DetectFacesGet(r)

---------------------------------------------------------------------------
(* The system: concurrent ingest_folder callers, reprocess passes, one     *)
(* migration run and delete_photo calls over one database.                 *)

InitStore ==
    /\ photos = {}
    /\ faces = {}
    /\ next_id = [photo |-> 1, face |-> 1]
    /\ ingest = [w \in Workers |-> IdleWorker]
    /\ reproc = [r \in Passes |-> IdlePass]
    /\ migr = IdleMigration
    /\ env = [faults |-> 0, deletes |-> 0]
    /\ calls = <<>>
    /\ db = [w \in Workers |-> "open"]
    /\ search = NoSearch
    /\ deleted = <<>>
    /\ api = NoApi

\* FaceDetector.__init__, and whether the model files can be loaded.
NewDetector(loadable) == [_initialized |-> FALSE, loadable |-> loadable]

\* Files 1 and 2 show two faces, files 3 and 4 do not decode, file 5 shows no face.
Init ==
    /\ InitStore
    /\ selected = NoSelection
    /\ face_detector = [w \in Workers |-> NewDetector(TRUE)]
    /\ detector = [c \in Contents |->
                      CASE c = 1 -> Decodes(TwoFaces)
                        [] c = 2 -> Corrupt
                        [] OTHER -> Decodes(<<>>)]

Listings == {<<1>>, <<2>>, <<3>>}

Next ==
    \/ \E w \in Workers : \E listing \in Listings : StartFolder(w, TRUE, listing)
    \/ \E w \in Workers : IngestCheck(w)
    \/ \E w \in Workers : IngestDetect(w)
    \/ \E w \in Workers : IngestInsertFace(w)
    \/ \E w \in Workers : IngestStorageError(w)
    \/ \E r \in Passes : ReprocessFetch(r)
    \/ \E r \in Passes : ReprocessPhoto(r)
    \/ \E r \in Passes : ReprocessInsertFace(r)
    \/ \E r \in Passes : ReprocessStorageError(r)
    \/ MigrateFetch
    \/ MigrateSelectFaces
    \/ MigrateDeleteFace
    \/ MigrateUnsetPrimary
    \/ MigrateSetPrimary
    \/ \E p \in photos : delete_photo(p.id)

Spec == Init /\ [][Next]_vars

---------------------------------------------------------------------------
(* One operation at a time, any detector output: the callers ingest file 1 *)
(* one after the other, reprocess passes run between the calls.            *)

InitSeq ==
    /\ InitStore
    /\ selected = NoSelection
    /\ face_detector = [w \in Workers |-> NewDetector(TRUE)]
    /\ \E d \in {Corrupt} \cup {Decodes(fs) : fs \in DetectorOutputs(MaxFaces)} :
           detector = [c \in Contents |->
                          CASE c = 1 -> d
                            [] c = 2 -> Corrupt
                            [] OTHER -> Decodes(<<>>)]

IngestAtRest(others) == \A w \in others : ingest[w].pc \in {"idle", "done"}
ReprocessAtRest(others) == \A r \in others : reproc[r].pc \in {"idle", "done"}

\* The callers are alike and so are the passes: they take their turns in the
\* order of their numbers.
IngestTurn(w) == \A v \in Workers : v < w => ingest[v].pc = "done"
ReprocessTurn(r) == \A q \in Passes : q < r => reproc[q].pc = "done"

NextSeq ==
    \/ \E w \in Workers :
           /\ IngestAtRest(Workers \ {w})
           /\ ReprocessAtRest(Passes)
           /\ \/ IngestTurn(w) /\ StartFolder(w, TRUE, <<1>>)
              \/ IngestCheck(w)
              \/ IngestDetect(w)
              \/ IngestInsertFace(w)
    \/ \E r \in Passes :
           /\ IngestAtRest(Workers)
           /\ ReprocessAtRest(Passes \ {r})
           /\ \/ ReprocessTurn(r) /\ ReprocessFetch(r)
              \/ ReprocessPhoto(r)
              \/ ReprocessInsertFace(r)

SpecSeq == InitSeq /\ [][NextSeq]_vars

---------------------------------------------------------------------------
(* One ingest_folder call over any folder of the files, with storage       *)
(* errors and delete_photo calls arriving meanwhile.                       *)

\* sorted(files)
RECURSIVE Sorted(_)
Sorted(S) ==
    IF S = {} THEN <<>>
    ELSE LET least == CHOOSE f \in S : \A g \in S : f <= g
         IN  <<least>> \o Sorted(S \ {least})

NextBatch ==
    \/ \E folder \in SUBSET Files : StartFolder(1, TRUE, Sorted(folder))
    \/ IngestCheck(1)
    \/ IngestDetect(1)
    \/ IngestInsertFace(1)
    \/ IngestStorageError(1)
    \/ \E p \in photos : delete_photo(p.id)

SpecBatch == Init /\ [][NextBatch]_vars

---------------------------------------------------------------------------
(* One ingest_folder call over a folder that may not exist, with a         *)
(* detector that may not load, any of the files corrupt, with a face or    *)
(* without, and storage errors, the loss of the connection among them.     *)

FileKinds == {Decodes(TwoFaces), Corrupt, Decodes(<<>>)}

InitFolder ==
    /\ InitStore
    /\ selected = NoSelection
    /\ \E loadable \in BOOLEAN :
           face_detector = [w \in Workers |-> NewDetector(loadable)]
    /\ \E kinds \in [1..3 -> FileKinds] :
           detector = [c \in Contents |-> IF c \in 1..3 THEN kinds[c] ELSE Corrupt]

NextFolder ==
    \/ \E exists \in BOOLEAN : \E folder \in SUBSET Files :
           StartFolder(1, exists, IF exists THEN Sorted(folder) ELSE <<>>)
    \/ IngestCheck(1)
    \/ IngestDetect(1)
    \/ IngestInsertFace(1)
    \/ IngestStorageError(1)
    \/ IngestConnectionLost(1)
    \/ IngestConnectionClosed(1)

SpecFolder == InitFolder /\ [][NextFolder]_vars

---------------------------------------------------------------------------
(* A corpus of three Photos: files 1, 3 and 5 are ingested and            *)
(* reprocessed.                                                            *)

OneFace(embedding) == <<[bbox |-> <<0, 0, 4, 4>>, embedding |-> embedding]>>

\* File 1 shows two faces, the larger second; files 3 and 5 one face each, the
\* face of file 3 with the embedding of the larger face of file 1, the face of
\* file 5 with that of the smaller.  Upload 4 shows no face, upload 5 does not
\* decode.
InitCorpus ==
    /\ InitStore
    /\ selected = NoSelection
    /\ face_detector = [w \in Workers |-> NewDetector(TRUE)]
    /\ detector = [c \in Contents |->
                      CASE c = 1 -> Decodes(TwoFaces)
                        [] c = 2 -> Decodes(OneFace(RawEmbedding(2)))
                        [] c = 3 -> Decodes(OneFace(RawEmbedding(1)))
                        [] c = 4 -> Decodes(<<>>)
                        [] OTHER -> Corrupt]

(* Searches over the corpus: the Photos are tagged, then an upload is      *)
(* searched for, once or again and again.  A search reads and never        *)
(* writes, so the searches come after the writes.                          *)

EventTags == {None, <<"">>, <<"a">>}    \* no tag, the empty string, a tag
TopKs == {1, 2}
Thresholds == {0, 98, 100}
Uploads == {1, 3, 4, 5}     \* the bytes of file 1, of file 5, and of no file

NextSearch ==
    \/ /\ search = NoSearch
       /\ ReprocessAtRest(Passes)
       /\ \/ StartFolder(1, TRUE, <<1, 3, 5>>)
          \/ IngestCheck(1)
          \/ IngestDetect(1)
          \/ IngestInsertFace(1)
    \/ /\ search = NoSearch
       /\ IngestAtRest(Workers)
       /\ \/ ReprocessFetch(1)
          \/ ReprocessPhoto(1)
          \/ ReprocessInsertFace(1)
    \/ /\ search = NoSearch
       /\ ingest[1].pc = "done"
       /\ ReprocessAtRest(Passes)
       /\ \E p \in photos : \E event_tag \in EventTags : update_photo_tag(p.id, event_tag)
    \/ \E image_data \in Uploads : \E top_k \in TopKs : \E threshold \in Thresholds :
           \E event_tag \in EventTags :
               /\ search.args \in {<<>>, <<image_data, top_k, threshold, event_tag>>}
               /\ search_by_image(image_data, top_k, threshold, event_tag)

SpecSearch == InitCorpus /\ [][NextSearch]_vars

---------------------------------------------------------------------------
(* delete_photo calls, failing ones among them, while the corpus is        *)
(* ingested and reprocessed.                                               *)

NextAdmin ==
    \/ StartFolder(1, TRUE, <<1, 3, 5>>)
    \/ IngestCheck(1)
    \/ IngestDetect(1)
    \/ IngestInsertFace(1)
    \/ ReprocessFetch(1)
    \/ ReprocessPhoto(1)
    \/ ReprocessInsertFace(1)
    \/ \E photo_id \in PhotoIds : delete_photo(photo_id)
    \/ \E photo_id \in PhotoIds : DeletePhotoStorageError(photo_id)

SpecAdmin == InitCorpus /\ [][NextAdmin]_vars

---------------------------------------------------------------------------
(* The selection helpers of bbox.py on any face list of up to MaxInput     *)
(* faces over Boxes, and on the list of five faces of areas 100, 50, 200,  *)
(* 10 and 150 square pixels.                                               *)

MaxInput == 4

ExampleFaces ==
    <<[bbox |-> <<0, 0, 20, 20>>, embedding |-> RawEmbedding(1)],
      [bbox |-> <<0, 0, 20, 10>>, embedding |-> RawEmbedding(2)],
      [bbox |-> <<0, 0, 40, 20>>, embedding |-> RawEmbedding(3)],
      [bbox |-> <<0, 0, 4, 10>>, embedding |-> RawEmbedding(4)],
      [bbox |-> <<0, 0, 30, 20>>, embedding |-> RawEmbedding(5)]>>

InitSelect ==
    /\ InitStore
    /\ face_detector = [w \in Workers |-> NewDetector(TRUE)]
    /\ detector = [c \in Contents |-> Corrupt]
    /\ \E fs \in DetectorOutputs(MaxInput) \cup {ExampleFaces} :
           selected = [NoSelection EXCEPT !.faces = fs]

NextSelect == \E n \in 1..(MaxInput + 1) : select_faces(n)

SpecSelect == InitSelect /\ [][NextSelect]_vars

---------------------------------------------------------------------------
(* Requests to the API process, model loads that raise among them.         *)

SpecApi == Init /\ [][NextApi]_vars

---------------------------------------------------------------------------
(* Reprocess passes, side by side, over the Photos of files 1, 4 and 5:    *)
(* the stored path of file 4 leads to no file, and any file may since have *)
(* gone or been damaged, and any detection may raise.                      *)

NextReprocess ==
    \/ /\ ReprocessAtRest(Passes)
       /\ \/ StartFolder(1, TRUE, <<1, 4, 5>>)
          \/ IngestCheck(1)
          \/ IngestDetect(1)
          \/ IngestInsertFace(1)
    \/ /\ ingest[1].pc = "done"
       /\ \E r \in Passes :
              \/ ReprocessFetch(r)
              \/ ReprocessPhoto(r)
              \/ ReprocessInsertFace(r)
              \/ \E failure \in Failures : ReprocessPhotoFails(r, failure)

SpecReprocess == InitCorpus /\ [][NextReprocess]_vars

---------------------------------------------------------------------------
(* ingest_image calls on file 1 and on its copy, file 2, one call at a     *)
(* time, any detector output, delete_photo calls between the calls.        *)

\* No ingest_image call is in progress.
BetweenCalls == \A w \in Workers : ingest[w].pc \in {"idle", "check", "done"}

NextDedup ==
    \/ \E w \in Workers :
           /\ IngestAtRest(Workers \ {w})
           /\ \/ /\ IngestTurn(w)
                 /\ \E listing \in {<<1>>, <<1, 2>>} : StartFolder(w, TRUE, listing)
              \/ IngestCheck(w)
              \/ IngestDetect(w)
              \/ IngestInsertFace(w)
    \/ /\ BetweenCalls
       /\ \E p \in photos : delete_photo(p.id)

SpecDedup == InitSeq /\ [][NextDedup]_vars

---------------------------------------------------------------------------
(* Properties *)

Primaries(photo_id) == {f \in FacesOf(photo_id) : f.is_primary}

\* C1: under any interleaving of concurrent ingests, no two Photo rows have
\* the same content fingerprint (the loser of a race is rejected).
C1_UniqueFingerprint ==
    \A p \in photos : \A q \in photos : p.sha1 = q.sha1 => p = q

\* A race was lost: a call passed the duplicate check and its INSERT INTO
\* photos was rejected, the winner's Photo being there.
C1_RaceLost ==
    \E i \in DOMAIN calls :
        /\ calls[i].message = "unique_violation"
        /\ \E p \in photos : p.sha1 = compute_sha1(calls[i].file)

\* C2: ingesting the same file twice in sequence, the file decoding and
\* showing a face to ingest: the first call returns success, the second the
\* duplicate skip, and the second call leaves Photos and Faces as they were.
C2_SameFileTwice ==
    /\ [](\A i \in DOMAIN calls :
            LET c == FileContent(calls[i].file)
                earlier == {k \in 1..(i - 1) : calls[k].file = calls[i].file}
            IN  /\ (earlier = {} /\ detector[c].decodable
                      /\ detect_largest_face(c) # NoneFace)
                   => (calls[i].success /\ calls[i].message = "success")
                /\ (\E k \in earlier : calls[k].success)
                   => (~ calls[i].success /\ calls[i].message = "duplicate"))
    /\ [][(/\ Len(calls') = Len(calls) + 1
           /\ \E k \in DOMAIN calls :
                 /\ calls[k].file = calls'[Len(calls')].file
                 /\ calls[k].success)
          => (photos' = photos /\ faces' = faces)]_vars

C2_SecondCallSkipped ==
    /\ Len(calls) = 2
    /\ calls[1].file = calls[2].file
    /\ calls[1].success
    /\ calls[2].message = "duplicate"
    /\ Cardinality(photos) = 1

\* C3: an ingest_image call that ends failed leaves no Photo row of its own
\* behind (all-or-nothing per image).
C3_AllOrNothing ==
    \A i \in DOMAIN calls :
        (~ calls[i].success /\ calls[i].message \notin {"duplicate", "no_face"})
        => ~ \E p \in photos : p.id = calls[i].photo_id

C5_OnePrimary ==
    \A p \in photos :
        /\ Cardinality(Primaries(p.id)) <= 1
        /\ FacesOf(p.id) # {} => Cardinality(Primaries(p.id)) = 1

\* No ingest_image call is between its two inserts and no reprocess pass is
\* between its delete and its last insert.
Completed ==
    /\ \A w \in Workers : ingest[w].pc # "insert_face"
    /\ \A r \in Passes : reproc[r].pc # "insert"

\* C6 as stated: once an ingest or reprocess has completed, the primary Face's
\* stored box area is >= the stored box area of every other Face of the Photo.
C6_PrimaryLargestStored ==
    Completed =>
        \A p \in photos : \A f \in Primaries(p.id) : \A g \in FacesOf(p.id) :
            compute_face_area(f.bbox) >= compute_face_area(g.bbox)

\* C6 as amended: once an ingest or reprocess has completed, the primary Face
\* is one whose raw detector box area is >= the raw box area of every other
\* Face retained for the Photo.
C6_PrimaryLargestRaw ==
    Completed =>
        \A p \in photos : \A f \in Primaries(p.id) : \A g \in FacesOf(p.id) :
            compute_bbox_area(f.raw) >= compute_bbox_area(g.raw)

\* A completed reprocess whose primary Face has a smaller stored area than
\* another retained Face.
C6_TruncationReorders ==
    /\ Completed
    /\ \E p \in photos : \E f \in Primaries(p.id) : \E g \in FacesOf(p.id) :
           compute_face_area(f.bbox) < compute_face_area(g.bbox)

\* C7: each Photo has at most N = 3 Faces, whatever the interleaving of
\* ingest, reprocess and migration runs.
C7_AtMostTopN ==
    \A p \in photos : Cardinality(FacesOf(p.id)) <= TopN

\* C8: a successful ingest_image persists one Photo and the
\* select_top_n(detected, 3) selection as its Faces, the first one primary
\* (read before any reprocess pass touches the Photo).
C8_IngestPersistsTopN ==
    \A i \in DOMAIN calls :
        (calls[i].success /\ \A r \in Passes : reproc[r].pc = "idle")
        => LET sel == select_top_n_faces(detect_faces(FileContent(calls[i].file)), TopN)
               rows == FacesOf(calls[i].photo_id)
           IN  /\ Cardinality({p \in photos : p.id = calls[i].photo_id}) = 1
               /\ Cardinality(rows) = Len(sel)
               /\ {<<f.raw, f.embedding, f.is_primary>> : f \in rows}
                  = {<<sel[k].bbox, normalize_embedding(sel[k].embedding), k = 1>> :
                        k \in DOMAIN sel}

\* C9: the duplicate check comes before any decoding or detection: a call
\* that finds a Photo with the file's fingerprint ends as the duplicate skip
\* with neither the decoder nor the detector invoked.
C9_DuplicateCheckFirst ==
    /\ \A i \in DOMAIN calls :
           calls[i].dup_found
           => /\ calls[i].message = "duplicate"
              /\ ~ calls[i].success
              /\ ~ calls[i].decoded
              /\ ~ calls[i].detected
    /\ \A w \in Workers :
           /\ ingest[w].pc = "check" => (~ ingest[w].decoded /\ ~ ingest[w].detected)
           /\ ingest[w].pc \in {"detect", "insert_face"} => ~ ingest[w].dup_found

\* A call found its file's fingerprint among the Photos and was skipped.
C9_DuplicateSkipped ==
    \E i \in DOMAIN calls : calls[i].dup_found /\ calls[i].message = "duplicate"

BatchDone == ingest[1].pc = "done"

CountOf(S) == Cardinality(S)

\* The counters of a finished batch account for every file once, by outcome.
CountersMatch ==
    LET me == ingest[1]
        n == Len(me.image_files)
    IN  /\ Len(calls) = n
        /\ \A i \in 1..n : calls[i].file = me.image_files[i]
        /\ me.stats.processed + me.stats.skipped + me.stats.errors = n
        /\ me.stats.processed = CountOf({i \in 1..n : calls[i].success})
        /\ me.stats.skipped =
               CountOf({i \in 1..n : ~ calls[i].success
                           /\ calls[i].message \in {"duplicate", "no_face"}})
        /\ me.stats.errors =
               CountOf({i \in 1..n : ~ calls[i].success
                           /\ calls[i].message \notin {"duplicate", "no_face"}})

\* The files of the batch whose bytes equal those of an earlier file of it.
Copies == {ij \in (DOMAIN calls) \X (DOMAIN calls) :
              /\ ij[1] < ij[2]
              /\ FileContent(calls[ij[1]].file) = FileContent(calls[ij[2]].file)}

\* C10 as stated: the counters of a finished batch account for every file
\* once, by outcome, and a file whose bytes equal an earlier file of the batch
\* is counted as skipped (granting the claim a copy on which storage fails).
C10_CountersAndCopiesSkipped ==
    BatchDone =>
        /\ CountersMatch
        /\ \A ij \in Copies :
               /\ ~ calls[ij[2]].success
               /\ calls[ij[2]].message \in {"duplicate", "no_face", "storage_error"}

\* C10 as amended: the counters account for every file once, by outcome; a
\* copy of an earlier file of the batch is skipped when the earlier file's
\* Photo exists or the file shows no face, and is an error like the earlier
\* file when that one failed to decode (a storage error aside).
C10_CountersAndCopies ==
    BatchDone =>
        /\ CountersMatch
        /\ \A ij \in Copies :
               LET first == calls[ij[1]]
                   copy == calls[ij[2]]
               IN  /\ (first.success /\ \E p \in photos : p.id = first.photo_id)
                      => copy.message \in {"duplicate", "storage_error"}
                   /\ first.message = "no_face"
                      => copy.message \in {"no_face", "storage_error"}
                   /\ first.message = "decode_error"
                      => copy.message \in {"decode_error", "storage_error"}

\* A finished batch with two files of identical bytes that do not decode,
\* both counted under errors, beside a skipped copy of an ingested file.
C10_CorruptCopyCounted ==
    /\ BatchDone
    /\ \E ij \in Copies :
           /\ calls[ij[1]].message = "decode_error"
           /\ calls[ij[2]].message = "decode_error"
    /\ \E ij \in Copies :
           /\ calls[ij[1]].success
           /\ calls[ij[2]].message = "duplicate"
    /\ ingest[1].stats.errors >= 2
    /\ ingest[1].stats.skipped >= 1

\* The files of the listing were each attempted once, in the sorted order.
AllAttempted ==
    /\ Len(calls) = Len(ingest[1].image_files)
    /\ \A i \in DOMAIN calls : calls[i].file = ingest[1].image_files[i]

\* The file of the i-th call decodes and shows a face to ingest.
Eligible(i) ==
    /\ detector[FileContent(calls[i].file)].decodable
    /\ detect_largest_face(FileContent(calls[i].file)) # NoneFace

\* An earlier file of the batch failed.
FailedBefore(i) ==
    \E k \in 1..(i - 1) :
        ~ calls[k].success /\ calls[k].message \notin {"duplicate", "no_face"}

\* C11: a finished ingest_folder has attempted every file of the sorted
\* listing, and every file after a failed one that decodes and shows a face
\* (and on which no storage error of its own strikes) has a Photo.
C11_LaterFilesIngested ==
    (ingest[1].pc = "done" /\ ingest[1].folder_exists) =>
        /\ AllAttempted
        /\ \A i \in DOMAIN calls :
               (/\ FailedBefore(i)
                /\ Eligible(i)
                /\ calls[i].message \notin {"storage_error", "connection_lost"})
               => \E p \in photos : p.sha1 = compute_sha1(calls[i].file)

\* The call of ingest_folder was made on a path that does not exist.
MissingFolderCall == ingest[1].pc # "idle" /\ ~ ingest[1].folder_exists

StoreUntouched == photos = {} /\ faces = {} /\ calls = <<>>

\* C12 as stated: ingest_folder on a path that does not exist returns
\* processed = 0, skipped = 0, errors = 1 and leaves the store as it was,
\* whether or not the face detector can be initialized.
C12_MissingFolder ==
    MissingFolderCall =>
        /\ ingest[1].pc = "done"
        /\ ingest[1].stats = [processed |-> 0, skipped |-> 0, errors |-> 1]
        /\ StoreUntouched

\* C12 as amended: with a detector that initializes, ingest_folder on a path
\* that does not exist returns processed = 0, skipped = 0, errors = 1; with
\* one that does not, the call raises before the folder is scanned; the store
\* is left as it was either way.
C12_MissingFolderDetectorLoaded ==
    MissingFolderCall =>
        /\ StoreUntouched
        /\ IF face_detector[1].loadable
           THEN /\ ingest[1].pc = "done"
                /\ ingest[1].stats = [processed |-> 0, skipped |-> 0, errors |-> 1]
           ELSE /\ ingest[1].pc = "raised"
                /\ ingest[1].stats = ZeroStats

\* A call on a missing path has returned the single error, the detector
\* initialized by the call.
C12_ScanFailureReported ==
    /\ MissingFolderCall
    /\ ingest[1].pc = "done"
    /\ ingest[1].stats.errors = 1
    /\ face_detector[1]._initialized

\* The arguments of the last search, and the embedding it ranked by.
ImageOf(s) == s.args[1]
TopKOf(s) == s.args[2]
ThresholdOf(s) == s.args[3]
EventTagOf(s) == s.args[4]
QueryOf(s) == get_embedding(ImageOf(s))

ResultPhotos(s) == {s.results[i].photo_id : i \in DOMAIN s.results}
ResultFaces(s) == {s.results[i].face : i \in DOMAIN s.results}

\* C13: every result of a search has similarity >= the threshold, and no
\* primary Face whose similarity is below the threshold is among the results.
C13_ThresholdRespected ==
    search.ranked =>
        /\ \A i \in DOMAIN search.results :
               search.results[i].similarity >= ThresholdOf(search)
        /\ \A f \in faces :
               (f.is_primary /\ Similarity(f, QueryOf(search)) < ThresholdOf(search))
               => f.id \notin ResultFaces(search)

\* A search at threshold 0.98 with room for two results returned the one
\* primary Face above the threshold and left out one below it.
C13_OneAboveOneBelow ==
    /\ search.ranked
    /\ ThresholdOf(search) = 98
    /\ TopKOf(search) = 2
    /\ EventTagOf(search) = None
    /\ Len(search.results) = 1
    /\ \E f \in faces :
           /\ f.is_primary
           /\ Similarity(f, QueryOf(search)) < 98
           /\ Similarity(f, QueryOf(search)) > 0

\* C14: every result carries the similarity of a primary Face of its Photo,
\* and a Photo no primary Face of which reaches the threshold is not returned,
\* whatever its other Faces.
C14_PrimaryFacesOnly ==
    search.ranked =>
        /\ \A i \in DOMAIN search.results :
               \E f \in Primaries(search.results[i].photo_id) :
                   Similarity(f, QueryOf(search)) = search.results[i].similarity
        /\ \A p \in photos :
               (\A f \in Primaries(p.id) :
                    Similarity(f, QueryOf(search)) < ThresholdOf(search))
               => p.id \notin ResultPhotos(search)

\* A search left out a Photo whose primary Face is below the threshold and
\* one of whose other Faces is at or above it.
C14_SecondaryFaceAbove ==
    /\ search.ranked
    /\ \E p \in photos :
           /\ p.id \notin ResultPhotos(search)
           /\ Primaries(p.id) # {}
           /\ \A f \in Primaries(p.id) :
                  Similarity(f, QueryOf(search)) < ThresholdOf(search)
           /\ \E g \in FacesOf(p.id) :
                  /\ ~ g.is_primary
                  /\ Similarity(g, QueryOf(search)) >= ThresholdOf(search)

\* C15: when the caller gives an event tag filter, any string, every result
\* is of a Photo whose event tag equals the filter.
C15_TagFilterExact ==
    (search.ranked /\ EventTagOf(search) # None) =>
        \A i \in DOMAIN search.results :
            search.results[i].event_tag = EventTagOf(search)

\* The primary Faces that qualify for a search: at or above the threshold, of
\* a Photo whose tag equals the filter when one is given.
Qualifying(s) ==
    {f \in faces :
        /\ f.is_primary
        /\ Similarity(f, QueryOf(s)) >= ThresholdOf(s)
        /\ \E p \in photos :
               /\ p.id = f.photo_id
               /\ EventTagOf(s) # None => p.event_tag = EventTagOf(s)}

\* C16: the results are in non-increasing order of similarity and at most
\* top_k; no qualifying Face left out is more similar than a result; fewer
\* than top_k qualifying Faces are all returned.
C16_BestFirstAtMostK ==
    search.ranked =>
        /\ \A i \in DOMAIN search.results : \A j \in DOMAIN search.results :
               i < j => search.results[i].similarity >= search.results[j].similarity
        /\ Len(search.results) <= TopKOf(search)
        /\ \A f \in Qualifying(search) : \A i \in DOMAIN search.results :
               f.id \notin ResultFaces(search)
               => Similarity(f, QueryOf(search)) <= search.results[i].similarity
        /\ Cardinality(Qualifying(search)) < TopKOf(search)
           => \A f \in Qualifying(search) : f.id \in ResultFaces(search)

\* C17: a search repeated with the same arguments over the same corpus
\* returns the same results in the same order.
C17_Reproducible ==
    [][(search.ranked /\ search'.args = search.args /\ photos' = photos
            /\ faces' = faces)
       => search'.results = search.results]_vars

\* C18: a search with an image that decodes and shows no face returns no
\* result and face_found = false, raises nothing and issues no ranking query;
\* and no search changes a Photo or a Face.
C18_NoFaceNoError ==
    /\ []((/\ search # NoSearch
            /\ detector[ImageOf(search)].decodable
            /\ detect_faces(ImageOf(search)) = <<>>)
           => (/\ ~ search.raised
               /\ ~ search.face_found
               /\ ~ search.ranked
               /\ search.results = <<>>))
    /\ [][search' # search => (photos' = photos /\ faces' = faces)]_vars

\* An upload without a face was searched for over a corpus with primary Faces.
C18_NoFaceQuery ==
    /\ search # NoSearch
    /\ detector[ImageOf(search)].decodable
    /\ detect_faces(ImageOf(search)) = <<>>
    /\ ~ search.face_found
    /\ \E f \in faces : f.is_primary

\* C19: a delete_photo(id) call that returns leaves no Photo with that id and
\* no Face of it, having removed them in one step, and changes no other row;
\* one that raises changes nothing; the call returns true exactly when a
\* Photo with that id existed.
C19_DeleteCascades ==
    [][Len(deleted') = Len(deleted) + 1
       => LET call == deleted'[Len(deleted')]
          IN  IF call.raised
              THEN photos' = photos /\ faces' = faces
              ELSE /\ photos' = {p \in photos : p.id # call.photo_id}
                   /\ faces' = {f \in faces : f.photo_id # call.photo_id}
                   /\ call.returned = (\E p \in photos : p.id = call.photo_id)]_vars

\* delete_photo returned true for the Photo of file 1, which the reprocess
\* pass had given its two Faces (all seven Face ids are handed out); the two
\* other Photos and their Faces are there.
C19_PhotoWithFacesDeleted ==
    /\ \E i \in DOMAIN deleted : deleted[i].returned /\ deleted[i].photo_id = 1
    /\ next_id.face = 8
    /\ Cardinality(photos) = 2
    /\ \A p \in photos : FacesOf(p.id) # {}

\* What a pass over a Photo of content c retains: the selection of the
\* detector's output, the first of it primary.
Selection(c) == select_top_n_faces(detect_faces(c), TopN)

\* C20: with the detector and the files unchanged, a finished reprocess pass
\* leaves every Photo it went over with the same Faces (boxes, embeddings,
\* primary flags), whether it is the first pass or a later one (read when no
\* pass is under way).
C20_ReprocessIdempotent ==
    \A r \in Passes :
        (reproc[r].pc = "done" /\ ReprocessAtRest(Passes)) =>
            \A k \in DOMAIN reproc[r].photos :
                LET photo == reproc[r].photos[k]
                    sel == Selection(PhotoContent(photo))
                IN  /\ Cardinality(FacesOf(photo.id)) = Len(sel)
                    /\ Retained(photo.id) =
                           {<<normalize_bbox(sel[i].bbox),
                              normalize_embedding(sel[i].embedding), i = 1>> :
                                i \in DOMAIN sel}

\* Two passes have gone over a Photo in which the detector finds four faces.
C20_SecondPassDone ==
    /\ \A r \in {1, 2} : reproc[r].pc = "done" /\ reproc[r].photos # <<>>
    /\ Len(detect_faces(1)) = 4
    /\ Cardinality(faces) = 3

\* The faces of a list, and the place of a face in it.
FacesIn(fs) == {fs[i] : i \in DOMAIN fs}
PlaceIn(fs, f) == CHOOSE i \in DOMAIN fs : fs[i] = f /\ \A j \in DOMAIN fs : fs[j] = f => i <= j

\* The areas of a face list in square pixels.
AreasOf(fs) == [i \in DOMAIN fs |-> compute_bbox_area(fs[i].bbox) \div 4]

\* C21: select_top_n_faces(faces, n), n >= 1, returns min(n, len(faces)) faces
\* of the input, each once, in non-increasing area order, faces of equal area
\* in their input order; no omitted face has a larger area than a returned
\* one, and of faces of equal area the one seen first is returned; an empty
\* input gives an empty output.
C21_TopNSelection ==
    selected.called =>
        LET fs == selected.faces
            top == selected.top_faces
            area(f) == compute_bbox_area(f.bbox)
        IN  /\ Len(top) = IF selected.n < Len(fs) THEN selected.n ELSE Len(fs)
            /\ FacesIn(top) \subseteq FacesIn(fs)
            /\ \A k \in DOMAIN top : \A l \in DOMAIN top :
                   k < l => /\ top[k] # top[l]
                            /\ area(top[k]) >= area(top[l])
                            /\ area(top[k]) = area(top[l])
                               => PlaceIn(fs, top[k]) < PlaceIn(fs, top[l])
            /\ \A f \in FacesIn(fs) \ FacesIn(top) : \A g \in FacesIn(top) :
                   /\ area(f) <= area(g)
                   /\ area(f) = area(g) => PlaceIn(fs, g) < PlaceIn(fs, f)
            /\ fs = <<>> => top = <<>>

\* Areas [100, 50, 200, 10, 150] with n = 3 gave [200, 150, 100].
C21_ExampleSelected ==
    /\ selected.called
    /\ selected.n = 3
    /\ AreasOf(selected.faces) = <<100, 50, 200, 10, 150>>
    /\ AreasOf(selected.top_faces) = <<200, 150, 100>>

\* C22: for every non-empty face list, select_largest_face returns the face
\* that select_top_n_faces(faces, 1) returns as its one element.
C22_LargestIsTopOne ==
    (selected.called /\ selected.faces # <<>>)
    => selected.largest_face = select_top_n_faces(selected.faces, 1)[1]

\* C28: the model is invoked for detection only when the detector is
\* initialized and its model prepared; once initialize has succeeded the model
\* is never loaded again; no two requests are loading the model at the same
\* time; a failed initialize leaves the detector uninitialized, and a request
\* that then tests the flag goes on to load the model.
C28_InitializeOnce ==
    /\ [](\A r \in Requests :
            api.req[r].pc = "get"
            => (api.fd._initialized /\ api.fd.app = <<"prepared">>))
    /\ [](Cardinality({r \in Requests : api.req[r].pc \in {"load", "prepare"}}) <= 1)
    /\ [][api.fd._initialized
          => (api'.loads = api.loads /\ api'.fd = api.fd)]_vars
    /\ [][\A r \in Requests :
            (api.req[r].pc # "failed" /\ api'.req[r].pc = "failed")
            => ~ api'.fd._initialized]_vars
    /\ [][\A r \in Requests :
            (api.req[r].pc = "initialize" /\ api'.req[r].pc # "initialize"
               /\ ~ api.fd._initialized)
            => api'.req[r].pc = "load"]_vars

\* A request is suspended at its await while another one, which found the
\* detector initialized, is about to invoke the model; the model was loaded
\* once, after a load that raised.
C28_SecondCallerReuses ==
    /\ api.failures = 1
    /\ api.loads = 1
    /\ api.fd._initialized
    /\ \E r \in Requests : \E q \in Requests : \E p \in Requests :
           /\ api.req[r].pc = "read"
           /\ api.req[q].pc = "get"
           /\ api.req[p].pc = "failed"

\* The place of a step in the timeline of the last search, 0 when it was not
\* taken.
StepAt(step) ==
    IF \E i \in DOMAIN search.timeline : search.timeline[i] = step
    THEN CHOOSE i \in DOMAIN search.timeline : search.timeline[i] = step
    ELSE 0

\* C27: when search_by_image finds a face, the end of the time measurement is
\* taken after the ranking query has returned: decode, detect, rank, and then
\* the clock is stopped.
C27_ElapsedCoversRanking ==
    search.face_found
    => /\ StepAt("start") < StepAt("decode")
       /\ StepAt("decode") < StepAt("detect")
       /\ StepAt("detect") < StepAt("rank")
       /\ StepAt("rank") < StepAt("stop")

\* The Photos ingested from a file of the bytes the last search was given,
\* which its tag filter lets through (no filter, or the Photo's tag).
IngestedAs(image, event_tag) ==
    {p \in photos :
        /\ \E i \in DOMAIN calls :
               /\ calls[i].success
               /\ calls[i].photo_id = p.id
               /\ FileContent(calls[i].file) = image
        /\ event_tag = None \/ event_tag = p.event_tag}

\* A search made with no reprocess pass under way.
SearchedAtRest == search.args # <<>> /\ ReprocessAtRest(Passes)

\* The embedding search_by_image derives from the image is the one stored for
\* the primary Face of the Photo ingested from it, and a face is found.
SameEmbedding(p) ==
    /\ search.face_found
    /\ \E f \in Primaries(p.id) : Primaries(p.id) = {f}
    /\ \A f \in Primaries(p.id) : f.embedding = get_embedding(ImageOf(search))

\* C23 as stated: a search with an image that was ingested successfully
\* (whatever reprocess passes came since) derives the embedding stored for the
\* Photo's primary Face, reports a face found and returns that Photo at the
\* maximum similarity.
C23_QueryFindsItsPhoto ==
    SearchedAtRest =>
        \A p \in IngestedAs(ImageOf(search), EventTagOf(search)) :
            /\ SameEmbedding(p)
            /\ \A k \in DOMAIN search.results : search.results[k].similarity <= 100
            /\ \E k \in DOMAIN search.results :
                   /\ search.results[k].photo_id = p.id
                   /\ search.results[k].similarity = 100

\* C23 as amended: the embeddings are equal and a face is found; the Photo is
\* returned at the maximum similarity unless top_k other rows at the maximum
\* similarity fill the result.
C23_QueryMatchesCorpus ==
    SearchedAtRest =>
        \A p \in IngestedAs(ImageOf(search), EventTagOf(search)) :
            /\ SameEmbedding(p)
            /\ \A k \in DOMAIN search.results : search.results[k].similarity <= 100
            /\ \/ \E k \in DOMAIN search.results :
                      /\ search.results[k].photo_id = p.id
                      /\ search.results[k].similarity = 100
               \/ /\ Len(search.results) = TopKOf(search)
                  /\ \A k \in DOMAIN search.results :
                         search.results[k].similarity = 100

\* A search with the bytes of file 1, which shows two faces, after file 1 was
\* ingested and reprocessed, at threshold 1.0 and top_k = 1: the one row
\* returned is another Photo, whose primary Face has the same embedding.
C23_CrowdedOut ==
    /\ SearchedAtRest
    /\ reproc[1].pc = "done"
    /\ ImageOf(search) = 1
    /\ ThresholdOf(search) = 100
    /\ TopKOf(search) = 1
    /\ \E p \in IngestedAs(1, EventTagOf(search)) :
           /\ Cardinality(FacesOf(p.id)) = 2
           /\ Len(search.results) = 1
           /\ search.results[1].photo_id # p.id

\* Caller w's ingest_image call returns in this step.
Returns(w) ==
    /\ Len(calls') = Len(calls) + 1
    /\ calls'[Len(calls')].w = w

\* Caller w's INSERT INTO photos is rejected in this step by the unique
\* constraint on sha1: the file decoded and shows a face, another Photo with
\* its fingerprint has appeared since the duplicate check, and no storage
\* error is injected.
InsertRejected(w) ==
    /\ ingest[w].pc = "detect"
    /\ Returns(w)
    /\ env' = env
    /\ detector[FileContent(CurFile(w))].decodable
    /\ detect_largest_face(FileContent(CurFile(w))) # NoneFace
    /\ UniqueViolation(ingest[w].sha1_hash)

\* C24: an ingest whose Photo insert is rejected by the constraint reports the
\* duplicate skip and is counted under skipped; a storage error is reported
\* as failed and counted under errors.
C24_RaceLoserSkipped ==
    [][\A w \in Workers :
          /\ InsertRejected(w)
             => /\ calls'[Len(calls')].message = "duplicate"
                /\ ingest'[w].stats.skipped = ingest[w].stats.skipped + 1
                /\ ingest'[w].stats.errors = ingest[w].stats.errors
          /\ (Returns(w) /\ env'.faults = env.faults + 1)
             => /\ ~ calls'[Len(calls')].success
                /\ calls'[Len(calls')].message \notin {"duplicate", "no_face"}
                /\ ingest'[w].stats.errors = ingest[w].stats.errors + 1]_vars

\* C25: every Face row has a box with x1 < x2 and y1 < y2.
C25_BoxWellFormed ==
    \A f \in faces : f.bbox[1] < f.bbox[3] /\ f.bbox[2] < f.bbox[4]

\* C26: the path of every Photo row is relative, it does not start at the
\* root, and holds no backslash.
C26_PathRelative ==
    \A p \in photos :
        /\ p.path[1] # "/"
        /\ \A i \in DOMAIN p.path : p.path[i] # "\\"

\* The photo pass r is at.
CurPhoto(r) == reproc[r].photos[reproc[r].idx + 1]

\* Pass r takes a step at a photo.
PhotoStep(r) == reproc[r].pc = "photo" /\ reproc'[r] # reproc[r]

\* C30: no step of a reprocess pass changes a Photo row, and a step changes
\* the Faces of the photo the pass is at only; the step that counts a photo
\* as failed changes no Face and moves the pass on to the next photo of its
\* list; a photo whose file is not found is counted as failed.
C30_FailedPhotoKeepsFaces ==
    [][\A r \in Passes :
          /\ reproc'[r] # reproc[r] => photos' = photos
          /\ (reproc'[r] # reproc[r] /\ reproc[r].pc \in {"photo", "insert"})
             => \A f \in (faces \ faces') \cup (faces' \ faces) :
                    f.photo_id = CurPhoto(r).id
          /\ (PhotoStep(r) /\ reproc'[r].failed # reproc[r].failed)
             => /\ faces' = faces
                /\ reproc'[r].failed = reproc[r].failed + 1
                /\ reproc'[r].photos = reproc[r].photos
                /\ reproc'[r].idx = reproc[r].idx + 1
                /\ reproc'[r].pc =
                       IF reproc'[r].idx < Len(reproc[r].photos)
                       THEN "photo" ELSE "done"
          /\ (PhotoStep(r) /\ FileAt(FullPath(CurPhoto(r))) = {})
             => reproc'[r].failed = reproc[r].failed + 1]_vars

\* Witness of C30: a pass over three photos has ended that gave the first
\* its second Face, counted the second, whose file is not found, as failed and
\* went on to the third; the second has the one Face of its ingest.
C30_FailedThenContinued ==
    \E r \in Passes :
        /\ reproc[r].pc = "done"
        /\ Len(reproc[r].photos) = 3
        /\ reproc[r].failed = 1
        /\ FileAt(FullPath(reproc[r].photos[2])) = {}
        /\ Cardinality(FacesOf(reproc[r].photos[1].id)) = 2
        /\ \E f \in faces : /\ FacesOf(reproc[r].photos[2].id) = {f}
                            /\ f.is_primary
        /\ FacesOf(reproc[r].photos[3].id) # {}

\* The ingest_image call that returns in this step.
Returned == calls'[Len(calls')]

\* The Photo ids given out so far: those of the rows, of the rows deleted
\* and of the calls that succeeded.
IdsSoFar ==
    {p.id : p \in photos}
        \cup {deleted[i].photo_id : i \in DOMAIN deleted}
        \cup {calls[i].photo_id : i \in {j \in DOMAIN calls : calls[j].success}}

\* The bytes decode and show a face that detect_largest_face returns.
ShowsFace(c) == detector[c].decodable /\ detect_largest_face(c) # NoneFace

\* C29: one call at a time, a call ends as duplicate only when a Photo with
\* the fingerprint of the file exists now, so a call on a file that shows a
\* face and has no Photo now, one that was ingested and deleted included,
\* succeeds, and its Photo has an id never given out before; a call that ends
\* as no_face has run the detection and has changed nothing, and every call
\* on a file that decodes and shows no face ends as no_face.
C29_DedupAgainstCurrent ==
    [][\A w \in Workers :
          /\ (Returns(w) /\ Returned.message = "duplicate")
             => \E p \in photos : p.sha1 = FileContent(Returned.file)
          /\ (Returns(w) /\ ShowsFace(FileContent(Returned.file)))
             => \/ Returned.message = "duplicate"
                \/ /\ Returned.success
                   /\ \E p \in photos : /\ p.id = Returned.photo_id
                                        /\ p.sha1 = FileContent(Returned.file)
          /\ (ingest'[w] # ingest[w] /\ photos' # photos)
             => \E p \in photos' : /\ photos' = photos \cup {p}
                                  /\ p.id \notin IdsSoFar
                                  /\ ingest'[w].photo_id = p.id
          /\ (Returns(w) /\ Returned.message = "no_face")
             => /\ Returned.detected
                /\ ~ Returned.dup_found
                /\ photos' = photos /\ faces' = faces
                /\ ~ \E p \in photos : p.sha1 = FileContent(Returned.file)
          /\ (Returns(w) /\ detector[FileContent(Returned.file)].decodable
                         /\ ~ ShowsFace(FileContent(Returned.file)))
             => /\ Returned.message = "no_face"
                /\ ~ \E i \in DOMAIN calls :
                         /\ FileContent(calls[i].file) = FileContent(Returned.file)
                         /\ calls[i].message # "no_face"]_vars

\* Witness of C29: file 1 was ingested, its Photo was deleted, and file 1
\* was ingested again, with success and under another id; the second Photo
\* is there.
C29_IngestedAgainAfterDelete ==
    \E i, j \in DOMAIN calls :
        /\ i < j
        /\ calls[i].file = 1 /\ calls[j].file = 1
        /\ calls[i].success /\ calls[j].success
        /\ calls[i].photo_id # calls[j].photo_id
        /\ \E d \in DOMAIN deleted : /\ deleted[d].photo_id = calls[i].photo_id
                                     /\ deleted[d].returned
        /\ {p.id : p \in photos} = {calls[j].photo_id}

\* A call on a file without a face ended as no_face, and so did the next.
C29_NoFaceAgain ==
    \E i, j \in DOMAIN calls :
        /\ i < j
        /\ calls[i].file = 1 /\ calls[j].file = 1
        /\ calls[i].message = "no_face" /\ calls[j].message = "no_face"
        /\ calls[j].detected

====
